---- MODULE Spec2Model ----
(* Model of daq (src/src/main.rs): the capture loop that races a          *)
(* non-blocking device read against the ctrl-c channel, the replay loop   *)
(* that injects the records of a capture file, and the statistics report. *)
EXTENDS Integers, Sequences, FiniteSets, TLC

\* ---------------------------------------------------------------- bounds
MaxReads == 3
MaxSignals == 2
MaxFile == 2
MaxPacket == 2
StormReads == 1

\* ------------------------------------------------------ program constants
ChanCap == 100

\* interrupts of a burst that overfills the channel
Burst == ChanCap + 1

Packets == 1..MaxPacket

\* pcap::Error values device.next() / input.next() can return
IoKinds == {"Interrupted", "WouldBlock", "BrokenPipe"}
PlainErrors == {"PcapError", "TimeoutExpired", "NoMorePackets", "MalformedError"}

OkResult(p) == [variant |-> "Ok", kind |-> "-", pkt |-> p]
ErrResult(v, k) == [variant |-> v, kind |-> k, pkt |-> 0]

DeviceResults ==
  {OkResult(p) : p \in Packets}
    \cup {ErrResult("IoError", k) : k \in IoKinds}
    \cup {ErrResult(v, "-") : v \in PlainErrors}

\* what the end of a capture file answers to input.next()
FileEnds == {ErrResult("NoMorePackets", "-"), ErrResult("MalformedError", "-")}

SeqsUpTo(S, n) == UNION {[1..k -> S] : k \in 0..n}

\* -------------------------------------------------------------- results
IoErr(kind, inner) == [tag |-> "Err", kind |-> kind, inner |-> inner]
OkSome(len) == [tag |-> "OkSome", kind |-> "-", inner |-> "-"]
OkNone == [tag |-> "OkNone", kind |-> "-", inner |-> "-"]

\* ReadOp that takes the end of the stream for "no packet"
ReadOpEndOfStream(r) ==
  IF r.variant = "Ok" THEN OkSome(r.pkt)
  ELSE IF r.variant = "IoError" /\ r.kind = "Interrupted" THEN IoErr("WouldBlock", "")
  ELSE IF r.variant = "IoError" /\ r.kind = "WouldBlock" THEN IoErr("WouldBlock", "")
  ELSE IF r.variant = "PcapError" THEN IoErr("WouldBlock", "")
  ELSE IF r.variant = "TimeoutExpired" THEN IoErr("WouldBlock", "")
  ELSE IF r.variant = "NoMorePackets" THEN OkNone
  ELSE IF r.variant = "IoError" THEN IoErr(r.kind, "")
  ELSE IoErr("Other", r.variant)

\* ReadOp with the TimeoutExpired arm missing from the retryable pattern
ReadOpNoTimeout(r) ==
  IF r.variant = "Ok" THEN OkSome(r.pkt)
  ELSE IF r.variant = "IoError" /\ r.kind = "Interrupted" THEN IoErr("WouldBlock", "")
  ELSE IF r.variant = "IoError" /\ r.kind = "WouldBlock" THEN IoErr("WouldBlock", "")
  ELSE IF r.variant = "PcapError" THEN IoErr("WouldBlock", "")
  ELSE IF r.variant = "IoError" THEN IoErr(r.kind, "")
  ELSE IoErr("Other", r.variant)

\* the closure handed to read_with_mut: the io::Result it returns for the
\* result r of device.next()
ReadOp(r) ==
  IF r.variant = "Ok" THEN OkSome(r.pkt)
  ELSE IF r.variant = "IoError" /\ r.kind = "Interrupted" THEN IoErr("WouldBlock", "")
  ELSE IF r.variant = "IoError" /\ r.kind = "WouldBlock" THEN IoErr("WouldBlock", "")
  ELSE IF r.variant = "PcapError" THEN IoErr("WouldBlock", "")
  ELSE IF r.variant = "TimeoutExpired" THEN IoErr("WouldBlock", "")
  ELSE IF r.variant = "IoError" THEN IoErr(r.kind, "")
  ELSE IoErr("Other", r.variant)

\* read_with_mut retries the closure (the future stays pending) exactly on
\* an io::Error of kind WouldBlock
Retried(res) == res.tag = "Err" /\ res.kind = "WouldBlock"

\* exit values of main
Running == [status |-> "running", src |-> "-", kind |-> "-", inner |-> "-"]
ExitOk == [status |-> "ok", src |-> "-", kind |-> "-", inner |-> "-"]
ExitErr(src, kind, inner) == [status |-> "err", src |-> src, kind |-> kind, inner |-> inner]

Line(text, n) == [text |-> text, n |-> n]

VARIABLES
  opts,       \* parsed command line
  pc,         \* position of main
  exit,       \* what main returned
  handler,    \* ctrl-c handler installed
  rxAlive,    \* the receiving end of the channel exists
  chan,       \* notifications queued in the channel
  signals,    \* interrupts delivered to the handler so far
  outcomes,   \* results of device.next(), in order
  sinkState,  \* savefile: "none", "open", "closed"
  sink,       \* records written to the savefile
  file,       \* records of the capture file being replayed
  fileEnd,    \* what the file answers after its last record
  fileReads,  \* calls of input.next()
  injected,   \* sendpacket attempts, in order
  statsCalls, \* calls of device.stats()
  stdout,     \* lines printed
  cancelAt    \* reads made when the first notification was queued, -1 before

vars == <<opts, pc, exit, handler, rxAlive, chan, signals, outcomes, sinkState,
          sink, file, fileEnd, fileReads, injected, statsCalls, stdout, cancelAt>>

OptsSet ==
  {o \in [device : BOOLEAN, input : BOOLEAN, output : BOOLEAN, verbose : BOOLEAN] :
     ~(o.input /\ o.output)}

Init ==
  /\ opts \in OptsSet
  /\ pc = "start"
  /\ exit = Running
  /\ handler = FALSE
  /\ rxAlive = FALSE
  /\ chan = 0
  /\ signals = 0
  /\ outcomes = <<>>
  /\ sinkState = "none"
  /\ sink = <<>>
  /\ file = <<>>
  /\ fileEnd = ErrResult("NoMorePackets", "-")
  /\ fileReads = 0
  /\ injected = <<>>
  /\ statsCalls = 0
  /\ stdout = <<>>
  /\ cancelAt = -1

\* main returns: every local is dropped
Return(e) ==
  /\ pc' = "done"
  /\ exit' = e
  /\ rxAlive' = FALSE
  /\ sinkState' = IF sinkState = "open" THEN "closed" ELSE sinkState

\* OpenDevice that notes the failure and goes on
OpenDeviceIgnoring ==
  /\ pc = "start"
  /\ opts.device
  /\ \E ok \in BOOLEAN :
       /\ pc' = "mode"
       /\ exit' = IF ok THEN exit ELSE ExitErr("open", "-", "-")
       /\ UNCHANGED <<rxAlive, sinkState>>
  /\ UNCHANGED <<opts, handler, chan, signals, outcomes, sink, file, fileEnd,
                 fileReads, injected, statsCalls, stdout, cancelAt>>

\* Capture::from_device(..)...open()?, setnonblock()?, Async::new(..)?
OpenDevice ==
  /\ pc = "start"
  /\ opts.device
  /\ \E ok \in BOOLEAN :
       IF ok
       THEN /\ pc' = "mode"
            /\ UNCHANGED <<exit, rxAlive, sinkState>>
       ELSE Return(ExitErr("open", "-", "-"))
  /\ UNCHANGED <<opts, handler, chan, signals, outcomes, sink, file, fileEnd,
                 fileReads, injected, statsCalls, stdout, cancelAt>>

\* Device::list()? and the printing of the devices
ListDevices ==
  /\ pc = "start"
  /\ ~opts.device
  /\ \E ok \in BOOLEAN :
       IF ok
       THEN /\ Return(ExitOk)
            /\ stdout' = Append(stdout, Line("device", 0))
       ELSE /\ Return(ExitErr("list", "-", "-"))
            /\ UNCHANGED stdout
  /\ UNCHANGED <<opts, handler, chan, signals, outcomes, sink, file, fileEnd,
                 fileReads, injected, statsCalls, cancelAt>>

\* InstallHandler that installs the handler in replay mode as well
InstallHandlerAnyMode ==
  /\ pc = "mode"
  /\ ~handler
  /\ opts.output \/ opts.input
  /\ \E ok \in BOOLEAN :
       IF ok
       THEN /\ pc' = IF opts.output THEN "savefile" ELSE "mode"
            /\ handler' = TRUE
            /\ rxAlive' = TRUE
            /\ UNCHANGED <<exit, sinkState>>
       ELSE /\ Return(ExitErr("handler", "-", "-"))
            /\ UNCHANGED handler
  /\ UNCHANGED <<opts, chan, signals, outcomes, sink, file, fileEnd,
                 fileReads, injected, statsCalls, stdout, cancelAt>>

\* async_channel::bounded(100) and ctrlc::set_handler(..)?
InstallHandler ==
  /\ pc = "mode"
  /\ opts.output
  /\ \E ok \in BOOLEAN :
       IF ok
       THEN /\ pc' = "savefile"
            /\ handler' = TRUE
            /\ rxAlive' = TRUE
            /\ UNCHANGED <<exit, sinkState>>
       ELSE /\ Return(ExitErr("handler", "-", "-"))
            /\ UNCHANGED handler
  /\ UNCHANGED <<opts, chan, signals, outcomes, sink, file, fileEnd,
                 fileReads, injected, statsCalls, stdout, cancelAt>>

\* device.get_ref().savefile(&o)? and println!("writing to ..")
OpenSavefile ==
  /\ pc = "savefile"
  /\ \E ok \in BOOLEAN :
       IF ok
       THEN /\ pc' = "capture"
            /\ sinkState' = "open"
            /\ stdout' = Append(stdout, Line("writing to", 0))
            /\ UNCHANGED <<exit, rxAlive>>
       ELSE /\ Return(ExitErr("savefile", "-", "-"))
            /\ UNCHANGED stdout
  /\ UNCHANGED <<opts, handler, chan, signals, outcomes, sink, file, fileEnd,
                 fileReads, injected, statsCalls, cancelAt>>

\* TrySend that accepts one notification more than the capacity
TrySendOffByOne ==
  IF rxAlive /\ chan <= ChanCap
  THEN /\ chan' = chan + 1
       /\ cancelAt' = IF cancelAt = -1 THEN Len(outcomes) ELSE cancelAt
  ELSE UNCHANGED <<chan, cancelAt>>

\* tx.try_send(()): the notification is stored unless the channel is full
\* or closed
TrySend ==
  IF rxAlive /\ chan < ChanCap
  THEN /\ chan' = chan + 1
       /\ cancelAt' = IF cancelAt = -1 THEN Len(outcomes) ELSE cancelAt
  ELSE UNCHANGED <<chan, cancelAt>>

\* Handler that waits for room in the channel (a blocking send)
HandlerBlocking ==
  /\ handler
  /\ pc # "done"
  /\ rxAlive /\ chan < ChanCap
  /\ signals' = signals + 1
  /\ TrySend
  /\ UNCHANGED <<opts, pc, exit, handler, rxAlive, outcomes, sinkState, sink,
                 file, fileEnd, fileReads, injected, statsCalls, stdout>>

\* one run of the ctrl-c handler closure: tx.try_send(()).ok()
Handler ==
  /\ handler
  /\ pc # "done"
  /\ signals' = signals + 1
  /\ TrySend
  /\ UNCHANGED <<opts, pc, exit, handler, rxAlive, outcomes, sinkState, sink,
                 file, fileEnd, fileReads, injected, statsCalls, stdout>>

\* an interrupt, at most MaxSignals of them in a run
Signal ==
  /\ signals < MaxSignals
  /\ Handler

\* an interrupt of a burst long enough to fill the channel
SignalBurst ==
  /\ signals < Burst
  /\ Handler

\* `_ = rx.next().fuse() => break`: one notification is consumed, the loop
\* is left and the block's locals (rx, output) are dropped
\* for c notifications queued before and c2 after
CancelBranchOn(c, c2) ==
  /\ c2 = c - 1
  /\ pc' = "stats"
  /\ rxAlive' = FALSE
  /\ sinkState' = "closed"
  /\ UNCHANGED <<exit, sink, stdout>>

CancelBranch == CancelBranchOn(chan, chan')

\* RxReady that takes only a single queued notification as a cancellation
RxReadySingle(c) == c = 1

\* rx.next() is ready when a notification is queued
RxReady(c) == c > 0

\* Write that loses the packet
WriteLost(p) == sink' = sink

\* output.write(&packet)
Write(p) == sink' = Append(sink, p)

\* Propagate that replaces the error by a generic one
PropagateGeneric(res) == Return(ExitErr("read", "Other", ""))

\* `ev?` on an Err: main returns the error
Propagate(res) == Return(ExitErr("read", res.kind, res.inner))

\* the plain `break` of the read branch: the loop is left and the block's
\* locals (rx, output) are dropped
PlainBreak ==
  /\ pc' = "stats"
  /\ rxAlive' = FALSE
  /\ sinkState' = "closed"
  /\ UNCHANGED exit

\* ReadBranchOn in which a queued cancellation discards the packet just read
ReadBranchDiscarding(r, c, c2) ==
  LET res == ReadOp(r) IN
  IF res.tag = "OkSome" /\ RxReady(c)
  THEN CancelBranchOn(c, c2)
  ELSE IF res.tag = "OkSome"
  THEN /\ Write(r.pkt)
       /\ stdout' = IF opts.verbose THEN Append(stdout, Line("captured", r.pkt)) ELSE stdout
       /\ c2 = c
       /\ UNCHANGED <<pc, exit, rxAlive, sinkState>>
  ELSE IF res.tag = "OkNone"
  THEN /\ PlainBreak
       /\ c2 = c
       /\ UNCHANGED <<sink, stdout>>
  ELSE IF Retried(res)
  THEN IF RxReady(c)
       THEN CancelBranchOn(c, c2)
       ELSE /\ c2 = c
            /\ UNCHANGED <<pc, exit, rxAlive, sinkState, sink, stdout>>
  ELSE /\ Propagate(res)
       /\ c2 = c
       /\ UNCHANGED <<sink, stdout>>

\* the read branch of the select for the result r of device.next(), with c
\* notifications queued before and c2 after: the closure writes a packet it
\* reads; a retried read leaves the future pending, so rx.next() is polled
\* next; `ev?` returns an error; Ok(None) takes the plain break
ReadBranchOn(r, c, c2) ==
  LET res == ReadOp(r) IN
  IF res.tag = "OkSome"
  THEN /\ Write(r.pkt)
       /\ stdout' = IF opts.verbose THEN Append(stdout, Line("captured", r.pkt)) ELSE stdout
       /\ c2 = c
       /\ UNCHANGED <<pc, exit, rxAlive, sinkState>>
  ELSE IF res.tag = "OkNone"
  THEN /\ PlainBreak
       /\ c2 = c
       /\ UNCHANGED <<sink, stdout>>
  ELSE IF Retried(res)
  THEN IF RxReady(c)
       THEN CancelBranchOn(c, c2)
       ELSE /\ c2 = c
            /\ UNCHANGED <<pc, exit, rxAlive, sinkState, sink, stdout>>
  ELSE /\ Propagate(res)
       /\ c2 = c
       /\ UNCHANGED <<sink, stdout>>

ReadBranch(r) == ReadBranchOn(r, chan, chan')

\* one poll of futures::select!: the branches are polled in a pseudo-random
\* order and the first one that is ready is taken
\* for c notifications queued before and c2 after
CaptureRaceOn(c, c2) ==
  /\ pc = "capture"
  /\ \E order \in {"read", "cancel"} :
       \/ /\ order = "cancel"
          /\ RxReady(c)
          /\ CancelBranchOn(c, c2)
          /\ UNCHANGED outcomes
       \/ /\ order = "read" \/ ~RxReady(c)
          /\ Len(outcomes) < MaxReads
          /\ \E r \in DeviceResults :
               /\ outcomes' = Append(outcomes, r)
               /\ ReadBranchOn(r, c, c2)
  /\ UNCHANGED <<opts, handler, signals, file, fileEnd, fileReads, injected,
                 statsCalls, cancelAt>>

CaptureRace == CaptureRaceOn(chan, chan')

\* a poll of the select in a run whose device is read at most StormReads times
StormRace ==
  /\ CaptureRace
  /\ Len(outcomes') <= StormReads

\* Capture::from_file(i)? and println!("reading from ..")
OpenInput ==
  /\ pc = "mode"
  /\ ~opts.output
  /\ opts.input
  /\ \E ok \in BOOLEAN :
       IF ok
       THEN /\ pc' = "replay"
            /\ file' \in SeqsUpTo(Packets, MaxFile)
            /\ fileEnd' \in FileEnds
            /\ stdout' = Append(stdout, Line("reading from", 0))
            /\ UNCHANGED <<exit, rxAlive, sinkState>>
       ELSE /\ Return(ExitErr("openfile", "-", "-"))
            /\ UNCHANGED <<file, fileEnd, stdout>>
  /\ UNCHANGED <<opts, handler, chan, signals, outcomes, sink,
                 fileReads, injected, statsCalls, cancelAt>>

\* FileNext that yields the records from the last to the first
FileNextReversed(n) == IF n < Len(file) THEN OkResult(file[Len(file) - n]) ELSE fileEnd

\* input.next() of the file source after n earlier calls
FileNext(n) == IF n < Len(file) THEN OkResult(file[n + 1]) ELSE fileEnd

\* Inject that ignores the result of sendpacket
InjectIgnoring(p, ok) ==
  /\ injected' = Append(injected, [pkt |-> p, ok |-> ok])
  /\ UNCHANGED <<pc, exit, rxAlive, sinkState>>

\* device.get_mut().sendpacket(&*packet)? with outcome ok
Inject(p, ok) ==
  /\ injected' = Append(injected, [pkt |-> p, ok |-> ok])
  /\ IF ok
     THEN UNCHANGED <<pc, exit, rxAlive, sinkState>>
     ELSE Return(ExitErr("inject", "-", "-"))

\* EndOfStream that keeps looping
EndOfStreamContinue == UNCHANGED <<pc, exit, rxAlive, sinkState>>

\* Err(Error::NoMorePackets) => break
EndOfStream ==
  /\ pc' = "stats"
  /\ UNCHANGED <<exit, rxAlive, sinkState>>

\* one iteration of the replay loop
ReplayStep ==
  /\ pc = "replay"
  /\ fileReads' = fileReads + 1
  /\ LET r == FileNext(fileReads) IN
       IF r.variant = "Ok"
       THEN /\ stdout' = IF opts.verbose THEN Append(stdout, Line("sending", r.pkt)) ELSE stdout
            /\ \E ok \in BOOLEAN : Inject(r.pkt, ok)
       ELSE IF r.variant = "NoMorePackets"
       THEN /\ EndOfStream
            /\ UNCHANGED <<injected, stdout>>
       ELSE /\ Return(ExitErr("file", "-", r.variant))
            /\ UNCHANGED <<injected, stdout>>
  /\ UNCHANGED <<opts, handler, chan, signals, outcomes, sink, file, fileEnd,
                 statsCalls, cancelAt>>

\* NoMode without the bail: the run falls through to the statistics
NoModeFallsThrough ==
  /\ pc = "mode"
  /\ ~opts.output
  /\ ~opts.input
  /\ pc' = "stats"
  /\ UNCHANGED <<exit, rxAlive, sinkState>>
  /\ UNCHANGED <<opts, handler, chan, signals, outcomes, sink, file, fileEnd,
                 fileReads, injected, statsCalls, stdout, cancelAt>>

\* anyhow::bail!("required input or output")
NoMode ==
  /\ pc = "mode"
  /\ ~opts.output
  /\ ~opts.input
  /\ Return(ExitErr("mode", "-", "required input or output"))
  /\ UNCHANGED <<opts, handler, chan, signals, outcomes, sink, file, fileEnd,
                 fileReads, injected, statsCalls, stdout, cancelAt>>

\* Stats that does not leave after the report and is taken again
StatsAgain ==
  /\ pc = "stats"
  /\ statsCalls < 2
  /\ statsCalls' = statsCalls + 1
  /\ stdout' = stdout \o <<Line("received", 0), Line("dropped", 0), Line("if_dropped", 0)>>
  /\ UNCHANGED <<pc, exit, rxAlive, sinkState>>
  /\ UNCHANGED <<opts, handler, chan, signals, outcomes, sink, file, fileEnd,
                 fileReads, injected, cancelAt>>

\* device.get_mut().stats()?, the three println!, Ok(())
Stats ==
  /\ pc = "stats"
  /\ statsCalls' = statsCalls + 1
  /\ \E ok \in BOOLEAN :
       IF ok
       THEN /\ stdout' = stdout \o <<Line("received", 0), Line("dropped", 0), Line("if_dropped", 0)>>
            /\ Return(ExitOk)
       ELSE /\ UNCHANGED stdout
            /\ Return(ExitErr("stats", "-", "-"))
  /\ UNCHANGED <<opts, handler, chan, signals, outcomes, sink, file, fileEnd,
                 fileReads, injected, cancelAt>>

Next ==
  \/ OpenDevice
  \/ ListDevices
  \/ InstallHandler
  \/ OpenSavefile
  \/ Signal
  \/ CaptureRace
  \/ OpenInput
  \/ ReplayStep
  \/ NoMode
  \/ Stats

Spec == Init /\ [][Next]_vars

\* the runs in which a burst of interrupts can fill the channel
NextStorm ==
  \/ OpenDevice
  \/ ListDevices
  \/ InstallHandler
  \/ OpenSavefile
  \/ SignalBurst
  \/ StormRace
  \/ OpenInput
  \/ ReplayStep
  \/ NoMode
  \/ Stats

SpecStorm == Init /\ [][NextStorm]_vars

\* the replay loop is plain sequential code: it always takes its next step
FairSpec == Spec /\ WF_vars(ReplayStep)

\* number of statistics reports printed
StatsReported == Cardinality({i \in 1..Len(stdout) : stdout[i].text = "received"})

TypeOK ==
  /\ opts \in OptsSet
  /\ pc \in {"start", "mode", "savefile", "capture", "replay", "stats", "done"}
  /\ chan \in 0..ChanCap
  /\ signals \in 0..Burst
  /\ Len(outcomes) <= MaxReads
  /\ sinkState \in {"none", "open", "closed"}
  /\ statsCalls \in Nat

\* ------------------------------------------------------------ properties
IsReady(r) == r.variant = "Ok"

\* the packets of the Ready results of a sequence of read results
ReadyPackets(s) ==
  LET rs == SelectSeq(s, IsReady) IN [i \in 1..Len(rs) |-> rs[i].pkt]

\* the read errors the specification calls Pending
SpecPending ==
  {ErrResult("IoError", "Interrupted"), ErrResult("IoError", "WouldBlock"),
   ErrResult("TimeoutExpired", "-"), ErrResult("PcapError", "-")}

SpecFatal(r) == ~IsReady(r) /\ r \notin SpecPending

\* the exit value e identifies the read error r
Carries(e, r) ==
  IF r.variant = "IoError" THEN e.kind = r.kind ELSE e.inner = r.variant

InjectedPackets == [i \in 1..Len(injected) |-> injected[i].pkt]

AllInjected == \A i \in 1..Len(injected) : injected[i].ok

IsPrefix(s, t) == Len(s) <= Len(t) /\ s = SubSeq(t, 1, Len(s))

\* C1: in the capture loop the sink holds exactly the packets of the Ready
\* results so far, in order: one write per Ready, none per Pending.
C1_OneWritePerReady == sink = ReadyPackets(outcomes)

C1_Witness ==
  /\ pc = "capture"
  /\ Len(outcomes) = 3
  /\ IsReady(outcomes[1]) /\ outcomes[2] \in SpecPending /\ IsReady(outcomes[3])
  /\ sink = <<1, 2>>

\* C2: once a cancellation notification has been queued, the cancellation
\* branch wins: no device read and no sink write happens after the delivery.
C2_CancelWins ==
  cancelAt # -1 =>
    /\ Len(outcomes) = cancelAt
    /\ sink = ReadyPackets(SubSeq(outcomes, 1, cancelAt))

\* C3: a capture run that entered its loop and in which cancellation was
\* delivered before any fatal error ends with the statistics taken exactly
\* once and with success.
C3_CancelledRunSucceeds ==
  (pc = "done" /\ cancelAt # -1 /\ sinkState = "closed") =>
    /\ exit = ExitOk
    /\ statsCalls = 1
    /\ StatsReported = 1

\* C4: a pipeline that ends with a fatal error (device read, injection,
\* capture-file read) has taken and reported the statistics.
C4_StatsOnFatal ==
  (exit.status = "err" /\ exit.src \in {"read", "inject", "file"}) =>
    /\ statsCalls = 1
    /\ StatsReported = 1

\* C5: when the k-th device read is fatal, the sink holds exactly the Ready
\* packets of the first k-1 reads, nothing is read or written afterwards and
\* main has returned a failure that carries the error.
C5_FatalRead ==
  \A k \in 1..Len(outcomes) :
    SpecFatal(outcomes[k]) =>
      /\ k = Len(outcomes)
      /\ sink = ReadyPackets(SubSeq(outcomes, 1, k - 1))
      /\ pc = "done"
      /\ exit.status = "err"
      /\ exit.src = "read"
      /\ Carries(exit, outcomes[k])

C5_Witness ==
  /\ Len(outcomes) = 3
  /\ outcomes[3] = ErrResult("IoError", "BrokenPipe")
  /\ Len(sink) = 2
  /\ exit = ExitErr("read", "BrokenPipe", "")

\* C6: the statistics are taken at most once, by a step made after the loop
\* was left, and no read, write or injection follows.
C6_StatsOnceAfterLoop ==
  /\ [](statsCalls <= 1 /\ (statsCalls > 0 => pc = "done"))
  /\ [][statsCalls' # statsCalls =>
          /\ pc = "stats"
          /\ statsCalls = 0
          /\ UNCHANGED <<outcomes, sink, injected, fileReads>>]_vars
  /\ [][statsCalls > 0 => UNCHANGED <<outcomes, sink, injected, fileReads>>]_vars

C6_Witness ==
  /\ statsCalls = 1
  /\ Len(sink) = 2
  /\ pc = "done"

\* a replay that ran and met neither an injection failure nor a file error
ReplayFinishedClean ==
  /\ pc = "done"
  /\ fileReads > 0
  /\ AllInjected
  /\ fileEnd.variant = "NoMorePackets"

\* C7 as stated: a replay of N records without injection failure and without
\* file error makes N injections in file order, succeeds and reports the
\* statistics once.
C7_ReplayAlwaysSucceeds ==
  ReplayFinishedClean =>
    /\ InjectedPackets = file
    /\ exit = ExitOk
    /\ StatsReported = 1

\* C7 amended: the injections follow the file order; such a replay makes
\* exactly N injections and calls stats once; it succeeds with one report
\* when that call succeeds and fails without a report when it fails.
C7_ReplayInjectsAll ==
  /\ IsPrefix(InjectedPackets, file)
  /\ ReplayFinishedClean =>
       /\ InjectedPackets = file
       /\ statsCalls = 1
       /\ exit.src # "stats" => (exit = ExitOk /\ StatsReported = 1)
       /\ exit.src = "stats" => (exit.status = "err" /\ StatsReported = 0)

C7_Witness ==
  /\ pc = "done"
  /\ file = <<1, 2>>
  /\ InjectedPackets = <<1, 2>>
  /\ AllInjected
  /\ exit = ExitOk
  /\ StatsReported = 1

\* C8 as stated: the file source is read at most N times.
C8_NoExtraRead == fileReads <= Len(file)

\* C8 amended: the file source is read at most N+1 times; the (N+1)-th read
\* is the one that reports the end of the file, it injects nothing and ends
\* the loop.
C8_OneExtraRead ==
  /\ fileReads <= Len(file) + 1
  /\ Len(injected) <= Len(file)
  /\ fileReads = Len(file) + 1 => (pc \in {"stats", "done"} /\ Len(injected) = Len(file))

C8_Witness ==
  /\ Len(file) = 2
  /\ fileReads = 3
  /\ pc = "stats"

\* C9: a failed injection is the last injection and the last read of the
\* file, and main has returned a failure.
C9_InjectFailureFatal ==
  \A i \in 1..Len(injected) :
    ~injected[i].ok =>
      /\ i = Len(injected)
      /\ fileReads = i
      /\ pc = "done"
      /\ exit.status = "err"
      /\ exit.src = "inject"

C9_Witness ==
  /\ Len(file) = 2
  /\ Len(injected) = 1
  /\ ~injected[1].ok
  /\ pc = "done"

\* C10: a read error is retried and never surfaced exactly when it is
\* interrupted, would-block, timeout-expired or a generic driver error;
\* every other read error ends the capture with that error.
C10_Classification ==
  /\ \A k \in 1..Len(outcomes) :
       /\ outcomes[k] \in SpecPending =>
            /\ pc \in {"capture", "stats", "done"}
            /\ exit.src = "read" => k < Len(outcomes)
       /\ SpecFatal(outcomes[k]) =>
            /\ k = Len(outcomes)
            /\ pc = "done"
            /\ exit.src = "read"
  /\ exit.src = "read" =>
       /\ Len(outcomes) > 0
       /\ SpecFatal(outcomes[Len(outcomes)])
       /\ exit.status = "err"

C10_Witness ==
  /\ Len(outcomes) = 3
  /\ outcomes[1] = ErrResult("TimeoutExpired", "-")
  /\ outcomes[2] = ErrResult("PcapError", "-")
  /\ outcomes[3] = ErrResult("NoMorePackets", "-")
  /\ exit = ExitErr("read", "Other", "NoMorePackets")

\* what a run shows: sink, reads, injections, statistics, output, exit
Observable == <<pc, exit, outcomes, sinkState, sink, fileReads, injected, statsCalls, stdout>>

\* C11: cancellation is idempotent: a delivery made while a notification is
\* already queued changes nothing a run shows, and whatever a poll of the
\* loop does with some notifications queued it does with any other positive
\* number of them queued (the queue is read by no other step).
C11_CancelIdempotent ==
  /\ [][(signals' # signals /\ chan >= 1) => UNCHANGED Observable]_vars
  /\ [][(CaptureRace /\ chan >= 1) =>
          \A c \in 1..MaxSignals : \E c2 \in 0..MaxSignals : CaptureRaceOn(c, c2)]_vars

C11_Witness ==
  /\ signals = 2
  /\ chan = 1
  /\ pc = "done"
  /\ exit = ExitOk
  /\ Len(sink) = 2

C15_DeliveryNeverBlocks ==
  /\ []((handler /\ pc # "done" /\ signals < Burst) => ENABLED SignalBurst)
  /\ [][signals' # signals =>
          /\ signals' = signals + 1
          /\ UNCHANGED <<Observable, rxAlive, handler, opts>>
          /\ (~rxAlive \/ chan = ChanCap) => UNCHANGED <<chan, cancelAt>>]_vars

C15_Witness ==
  /\ pc = "capture"
  /\ Len(sink) = 1
  /\ chan = ChanCap
  /\ signals = ChanCap + 1

\* no loop iteration, no handler, no sink, no statistics, no output
NothingRan ==
  /\ outcomes = <<>>
  /\ fileReads = 0
  /\ injected = <<>>
  /\ sink = <<>>
  /\ sinkState = "none"
  /\ ~handler
  /\ statsCalls = 0
  /\ stdout = <<>>

\* C13: when opening or configuring the device fails, main has returned the
\* failure at once: no loop iteration, no sink, no statistics.
C13_OpenFailure ==
  exit.src = "open" =>
    /\ pc = "done"
    /\ exit.status = "err"
    /\ NothingRan

C13_Witness ==
  /\ exit = ExitErr("open", "-", "-")
  /\ opts.output
  /\ pc = "done"

\* the listing finished
Listed == ~opts.device /\ \E i \in 1..Len(stdout) : stdout[i].text = "device"

\* the replay loop was left at the end of the file
ReplayEOS ==
  /\ fileReads = Len(file) + 1
  /\ AllInjected
  /\ fileEnd.variant = "NoMorePackets"

\* the capture loop was entered and left without a fatal read
CleanCancel ==
  /\ sinkState = "closed"
  /\ pc \in {"stats", "done"}
  /\ \A k \in 1..Len(outcomes) : ~SpecFatal(outcomes[k])

\* a fatal capture or replay error is the error main returned
ErrorsCarried ==
  /\ \A k \in 1..Len(outcomes) :
       SpecFatal(outcomes[k]) =>
         (exit.status = "err" /\ exit.src = "read" /\ Carries(exit, outcomes[k]))
  /\ \A i \in 1..Len(injected) :
       ~injected[i].ok => exit = ExitErr("inject", "-", "-")
  /\ (fileReads = Len(file) + 1 /\ AllInjected /\ fileEnd.variant # "NoMorePackets") =>
       exit = ExitErr("file", "-", fileEnd.variant)

\* C14 as stated: a finished run succeeded exactly when it ended by the end
\* of the replayed file, by the end of the listing or by a clean
\* cancellation; fatal errors are the error returned.
C14_ExitStatus ==
  pc = "done" =>
    /\ exit.status = "ok" <=> (Listed \/ ReplayEOS \/ CleanCancel)
    /\ ErrorsCarried

\* C14 amended: as stated, but a replay that reached the end of its file and
\* a cleanly cancelled capture succeed exactly when the statistics call that
\* follows succeeds; when it fails the run fails with that error.
C14_ExitStatusWithStats ==
  pc = "done" =>
    /\ exit.status = "ok" <=> (Listed \/ ((ReplayEOS \/ CleanCancel) /\ StatsReported = 1))
    /\ exit.status # "ok" => exit.status = "err"
    /\ ((ReplayEOS \/ CleanCancel) /\ StatsReported = 0) => exit = ExitErr("stats", "-", "-")
    /\ ErrorsCarried

C14_Witness ==
  /\ pc = "done"
  /\ CleanCancel
  /\ Len(sink) = 1
  /\ exit = ExitErr("stats", "-", "-")

\* C16: in replay mode the handler is never installed and no notification
\* exists; the replay loop is left only at the end of the file (no error),
\* on a failed injection or on another file error (both failures); and the
\* loop is always left.
C16_ReplayGatedBySource ==
  /\ [](opts.input => (~handler /\ signals = 0 /\ chan = 0 /\ cancelAt = -1))
  /\ [][(pc = "replay" /\ pc' # "replay") =>
          LET r == FileNext(fileReads) IN
            \/ r.variant = "NoMorePackets" /\ pc' = "stats" /\ exit' = Running
            \/ /\ r.variant = "Ok"
               /\ ~injected'[Len(injected')].ok
               /\ pc' = "done"
               /\ exit' = ExitErr("inject", "-", "-")
            \/ /\ r.variant \notin {"Ok", "NoMorePackets"}
               /\ pc' = "done"
               /\ exit' = ExitErr("file", "-", r.variant)]_vars
  /\ (pc = "replay" ~> pc # "replay")

C16_Witness ==
  /\ pc = "stats"
  /\ opts.input
  /\ Len(file) = 2
  /\ Len(injected) = 2
  /\ ~handler

\* C17: the capture loop is left only by the cancellation branch or by a
\* fatal read error; the end of the stream reported by the device is such a
\* fatal error; a capture that succeeded was cancelled.
C17_CaptureExits ==
  /\ [][(pc = "capture" /\ pc' # "capture") =>
          \/ pc' = "stats" /\ chan' = chan - 1 /\ exit' = Running
          \/ /\ pc' = "done"
             /\ exit'.status = "err"
             /\ exit'.src = "read"
             /\ Len(outcomes') = Len(outcomes) + 1
             /\ SpecFatal(outcomes'[Len(outcomes')])]_vars
  /\ [](\A k \in 1..Len(outcomes) :
          outcomes[k].variant = "NoMorePackets" =>
            /\ k = Len(outcomes)
            /\ pc = "done"
            /\ exit = ExitErr("read", "Other", "NoMorePackets"))
  /\ []((pc = "done" /\ exit = ExitOk /\ opts.device /\ opts.output) => cancelAt # -1)

C17_Witness ==
  /\ Len(outcomes) = 2
  /\ IsReady(outcomes[1])
  /\ outcomes[2] = ErrResult("NoMorePackets", "-")
  /\ exit = ExitErr("read", "Other", "NoMorePackets")

\* C18: a packet is written in the step that reads it, and the step in which
\* cancellation wins reads no packet: the successful reads always number the
\* sink records.
C18_ReadAndWriteAtomic ==
  /\ [](Len(SelectSeq(outcomes, IsReady)) = Len(sink))
  /\ [][(outcomes' # outcomes /\ IsReady(outcomes'[Len(outcomes')])) =>
          /\ sink' = Append(sink, outcomes'[Len(outcomes')].pkt)
          /\ pc' = "capture"]_vars
  /\ [][(pc = "capture" /\ pc' = "stats") =>
          /\ sink' = sink
          /\ outcomes' = outcomes \/ ~IsReady(outcomes'[Len(outcomes')])]_vars

C18_Witness ==
  /\ pc = "stats"
  /\ chan = 0
  /\ Len(outcomes) = 3
  /\ outcomes[3] \in SpecPending
  /\ Len(sink) = 2

\* C19: with a device but neither input nor output the run fails with
\* "required input or output" after the device was opened, and nothing else
\* has run.
C19_NoModeFails ==
  /\ exit.src = "mode" =>
       /\ opts.device /\ ~opts.input /\ ~opts.output
       /\ pc = "done"
       /\ exit = ExitErr("mode", "-", "required input or output")
       /\ NothingRan
  /\ (pc = "done" /\ opts.device /\ ~opts.input /\ ~opts.output) =>
       /\ exit.status = "err"
       /\ exit.src \in {"open", "mode"}
       /\ NothingRan

C19_Witness ==
  /\ exit = ExitErr("mode", "-", "required input or output")
  /\ opts.verbose
  /\ pc = "done"

====
